---- MODULE Spec2Model ----
(***************************************************************************)
(* Model of src/jupyter-extension/gaialab_magic.py: the GaiaLabMagic       *)
(* class with its line magic gaialab_config and its cell magic gaialab.    *)
(*                                                                         *)
(* Strings are sequences of atoms.  An atom is one character (" ", ",",   *)
(* ":", "\n", "a", ...) or a fixed run of non-blank, non-separator         *)
(* characters ("disease", "dataframe", ...), so that str.split, str.strip  *)
(* and str.upper are computed on the sequence as Python computes them on   *)
(* the characters.                                                         *)
(***************************************************************************)
EXTENDS Integers, Sequences, FiniteSets, TLC

VARIABLES
    api_url,         \* self.api_url
    user_ns,         \* self.shell.user_ns, restricted to the name gaialab_result
    op,              \* the magic that ran last: "init", "pending", "gaialab_config", "gaialab"
    configured,      \* <<>> or <<line>>: the argument of the last gaialab_config call
    line,            \* the line argument of the last gaialab call
    cell,            \* the cell argument of the last gaialab call
    env,             \* what the network did with the POST of the last gaialab call
    genes,           \* local genes of the last gaialab call
    params,          \* local params of the last gaialab call
    disease_context, \* local disease_context
    audience,        \* local audience
    output_format,   \* local output_format
    posts,           \* the requests.post calls made by the last gaialab call
    calls,           \* response.json and the formatting routines called by it, in order
    displayed,       \* what the last gaialab call displayed or printed, in order
    thrown,          \* the exception raised inside the try block of the last gaialab call, or NoException
    raised           \* the exception that left the last gaialab call, or NoException

vars == <<api_url, user_ns, op, configured, line, cell, env, genes, params,
          disease_context, audience, output_format, posts, calls, displayed, thrown, raised>>

----------------------------------------------------------------------------
(* Bounds of the input spaces.                                             *)

MaxLineLen == 5
MaxCellLen == 6
MaxCellLines == 2

----------------------------------------------------------------------------
(* Python str primitives.                                                  *)

Whitespace == {" ", "\n", "\t"}

Min(S) == CHOOSE x \in S : \A y \in S : x <= y
Max(S) == CHOOSE x \in S : \A y \in S : x >= y

\* str.strip(): drop the leading and the trailing whitespace
Strip(s) ==
    LET keep == {i \in 1..Len(s) : s[i] \notin Whitespace}
    IN  IF keep = {} THEN <<>> ELSE SubSeq(s, Min(keep), Max(keep))

UpperChar(c) ==
    CASE c = "a" -> "A"
      [] c = "tp53" -> "TP53"
      [] c = "brca1" -> "BRCA1"
      [] OTHER -> c

\* str.upper()
Upper(s) == [i \in 1..Len(s) |-> UpperChar(s[i])]

RECURSIVE Split(_, _)
\* str.split(sep): always at least one piece, empty pieces kept
Split(s, sep) ==
    LET at == {i \in 1..Len(s) : s[i] = sep}
    IN  IF at = {} THEN <<s>>
        ELSE <<SubSeq(s, 1, Min(at) - 1)>> \o Split(SubSeq(s, Min(at) + 1, Len(s)), sep)

\* str.rsplit(sep, 1) in the place of str.split(sep, 1)
SplitFirst_Last(s, sep) ==
    LET at == Max({i \in 1..Len(s) : s[i] = sep})
    IN  <<SubSeq(s, 1, at - 1), SubSeq(s, at + 1, Len(s))>>

\* str.split(sep, 1) of a string that contains sep
SplitFirst(s, sep) ==
    LET at == Min({i \in 1..Len(s) : s[i] = sep})
    IN  <<SubSeq(s, 1, at - 1), SubSeq(s, at + 1, Len(s))>>

\* sep in s
Contains(s, sep) == \E i \in 1..Len(s) : s[i] = sep

RECURSIVE Join(_, _)
\* sep.join(parts)
Join(parts, sep) ==
    IF parts = <<>> THEN <<>>
    ELSE IF Len(parts) = 1 THEN parts[1]
    ELSE parts[1] \o <<sep>> \o Join(Tail(parts), sep)

\* dict.get(key, default)
Get(d, key, default) == IF key \in DOMAIN d THEN d[key] ELSE default

\* d[key] = value
Put(d, key, value) == [k \in DOMAIN d \cup {key} |-> IF k = key THEN value ELSE d[k]]

EmptyDict == [k \in {} |-> <<>>]

----------------------------------------------------------------------------
(* The parsing done by gaialab.                                            *)

NonBlank(g) == Strip(g) # <<>>

RECURSIVE UpperStripAll(_)
UpperStripAll(ps) ==
    IF ps = <<>> THEN <<>> ELSE <<Upper(Strip(Head(ps)))>> \o UpperStripAll(Tail(ps))

\* the comprehension without its filter
ParseGenes_NoFilter(l) == UpperStripAll(Split(l, ","))

\* genes = [g.strip().upper() for g in line.split(',') if g.strip()]
ParseGenes(l) == UpperStripAll(SelectSeq(Split(l, ","), NonBlank))

RECURSIVE ParseLines(_, _)
\* the body of the for loop over the lines of the cell
ParseLines(ls, p) ==
    IF ls = <<>> THEN p
    ELSE LET l == Head(ls)
         IN  IF Contains(l, ":")
             THEN LET kv == SplitFirst(l, ":")
                  IN  ParseLines(Tail(ls), Put(p, Strip(kv[1]), Strip(kv[2])))
             ELSE ParseLines(Tail(ls), p)

\* params = {}; for line in cell.strip().split('\n'): ...
ParseParams(c) == ParseLines(Split(Strip(c), "\n"), EmptyDict)

DefaultDisease == <<"cancer">>
DefaultAudience == <<"researcher">>
DefaultFormat == <<"rich">>

GetDisease(p) == Get(p, <<"disease">>, DefaultDisease)
GetAudience(p) == Get(p, <<"audience">>, DefaultAudience)
\* the default format taken to be the plain one
GetFormat_DefaultSimple(p) == Get(p, <<"format">>, <<"simple">>)

GetFormat(p) == Get(p, <<"format">>, DefaultFormat)

----------------------------------------------------------------------------
(* What is displayed.  Every output is a record of the same shape:         *)
(* via is the display channel, what names the notice, code is the number   *)
(* it carries, cols the column index of a table, msg the text it carries.  *)

Item(v, w, n, cs, m) == [via |-> v, what |-> w, code |-> n, cols |-> cs, msg |-> m]

NoGenesNotice == Item("HTML", "NoGenes", 0, <<>>, "")
AnalyzingNotice(g, dc) == Item("HTML", "Analyzing", Len(g), <<>>, "")
ApiErrorNotice(status) == Item("HTML", "ApiError", status, <<>>, "")
TimeoutNotice == Item("HTML", "Timeout", 0, <<>>, "")
ErrorNotice(e) == Item("HTML", "Error", 0, <<>>, e)
StoredNotice == Item("Markdown", "Stored", 0, <<>>, "")

NoException == "none"

\* requests.exceptions.Timeout and its subclasses
TimeoutClass == {"Timeout", "ConnectTimeout", "ReadTimeout"}

\* the exceptions that derive from BaseException but not from Exception
BaseOnlyClass == {"KeyboardInterrupt", "SystemExit"}

----------------------------------------------------------------------------
(* The formatting routines.  A routine returns what it displayed and the   *)
(* exception it raised (NoException when it returned).                     *)

RichGeneLimit == 5
RichPathwayLimit == 5
SimplePathwayLimit == 5
FramePathwayLimit == 10
PostTimeout == 180
StatusOK == 200

Take(s, n) == SubSeq(s, 1, IF Len(s) < n THEN Len(s) ELSE n)

Done(o) == [out |-> o, exc |-> NoException]
Raise(o, e) == [out |-> o, exc |-> e]

\* gene.get(...) on an element that is not an object
GeneGetExc(g) == IF g.isDict THEN NoException ELSE "AttributeError"

\* gene.get('importanceScore', 0) * 100, formatted as a number
GeneScoreExc(g) ==
    IF ~g.isDict THEN "AttributeError"
    ELSE IF g.score = "null" THEN "TypeError"
    ELSE NoException

\* f"{pathway.get('pvalue', 0):.2e}"
PvalueExc(p) == IF p.pvalue = "null" THEN "TypeError" ELSE NoException

\* len(pathway.get('genesInPathway', []))
GenesInPathwayExc(p) == IF p.genesInPathway = "null" THEN "TypeError" ELSE NoException

\* the index of the first iteration of a loop that raises, 0 when none does;
\* es[i] is what iteration i raises
FirstRaising(es) ==
    LET bad == {i \in 1..Len(es) : es[i] # NoException}
    IN  IF bad = {} THEN 0 ELSE Min(bad)

IsSignificant(p) == p.significance = "significant"

\* _display_rich(result, genes, disease)
display_rich(result, g, disease) ==
    IF ~result.isDict THEN Raise(<<>>, "AttributeError")
    ELSE
    LET gs == Take(result.genes, RichGeneLimit)
        gbad == FirstRaising([i \in 1..Len(gs) |-> GeneScoreExc(gs[i])])
        ps == Take(SelectSeq(result.pathways, IsSignificant), RichPathwayLimit)
        pbad == FirstRaising([i \in 1..Len(ps) |-> PvalueExc(ps[i])])
    IN  IF gbad # 0 THEN Raise(<<>>, GeneScoreExc(gs[gbad]))
        ELSE IF pbad # 0 THEN Raise(<<>>, PvalueExc(ps[pbad]))
        ELSE Done(<<Item("HTML", "Rich", Len(result.genes), <<>>, "")>>)

SimplePrint(w, n) == Item("print", w, n, <<>>, "")

\* _display_simple(result, genes, disease)
display_simple(result, g, disease) ==
    LET head == <<SimplePrint("SimpleTitle", 0), SimplePrint("SimpleRule", 0)>>
    IN
    IF ~result.isDict THEN Raise(head, "AttributeError")
    ELSE
    LET gbad == FirstRaising([i \in 1..Len(result.genes) |-> GeneGetExc(result.genes[i])])
        summary == <<SimplePrint("SimpleGenes", Len(result.genes)),
                     SimplePrint("SimplePathways", Len(result.pathways)),
                     SimplePrint("SimplePapers", 0),
                     SimplePrint("SimpleTime", 0),
                     SimplePrint("SimpleTop", 0)>>
        ps == Take(result.pathways, SimplePathwayLimit)
        pbad == FirstRaising([i \in 1..Len(ps) |-> PvalueExc(ps[i])])
        shown == IF pbad = 0 THEN Len(ps) ELSE pbad - 1
        rows == [i \in 1..shown |-> SimplePrint("SimplePathway", i)]
    IN  IF gbad # 0 THEN Raise(head, GeneGetExc(result.genes[gbad]))
        ELSE IF pbad # 0 THEN Raise(head \o summary \o rows, PvalueExc(ps[pbad]))
        ELSE Done(head \o summary \o rows)

\* the gene row without its last key
GeneRow_NoUniProt(g) == <<"Symbol", "Name", "Importance">>

\* the dict appended to genes_data: its keys in insertion order
GeneRow(g) == <<"Symbol", "Name", "Importance", "UniProt">>

\* the dict appended to pathways_data: its keys in insertion order
PathwayRow(p) == <<"Pathway", "P-value", "Significance", "Confidence", "Genes">>

\* pd.DataFrame(rows) of a non-empty list of dicts with the same keys:
\* the columns are the keys of the dicts, in insertion order
DataFrame(rows) == Item("DataFrame", "Table", Len(rows), rows[1], "")

\* _display_as_dataframe(result)
display_as_dataframe(result) ==
    IF ~result.isDict THEN Raise(<<>>, "AttributeError")
    ELSE
    LET gbad == FirstRaising([i \in 1..Len(result.genes) |-> GeneScoreExc(result.genes[i])])
        genes_data == [i \in 1..Len(result.genes) |-> GeneRow(result.genes[i])]
        gout == IF genes_data # <<>>
                THEN <<Item("print", "GENES", 0, <<>>, ""), DataFrame(genes_data)>>
                ELSE <<>>
        ps == Take(result.pathways, FramePathwayLimit)
        pbad == FirstRaising([i \in 1..Len(ps) |-> GenesInPathwayExc(ps[i])])
        pathways_data == [i \in 1..Len(ps) |-> PathwayRow(ps[i])]
        pout == IF pathways_data # <<>>
                THEN <<Item("print", "PATHWAYS", 0, <<>>, ""), DataFrame(pathways_data)>>
                ELSE <<>>
    IN  IF gbad # 0 THEN Raise(<<>>, GeneScoreExc(result.genes[gbad]))
        ELSE IF pbad # 0 THEN Raise(gout, GenesInPathwayExc(ps[pbad]))
        ELSE Done(gout \o pout)

\* the routine the output_format string selects
FormatterName(fmt) ==
    IF fmt = <<"dataframe">> THEN "_display_as_dataframe"
    ELSE IF fmt = <<"simple">> THEN "_display_simple"
    ELSE "_display_rich"

\* if output_format == 'dataframe': ... elif output_format == 'simple': ... else: ...
Format(fmt, result, g, disease) ==
    IF fmt = <<"dataframe">> THEN display_as_dataframe(result)
    ELSE IF fmt = <<"simple">> THEN display_simple(result, g, disease)
    ELSE display_rich(result, g, disease)

----------------------------------------------------------------------------
(* The decoded response bodies the service may send.                       *)

Gene(d, sc) == [isDict |-> d, score |-> sc]
Pathway(pv, sg, gp) == [pvalue |-> pv, significance |-> sg, genesInPathway |-> gp]
Result(t, d, gs, ps) == [tag |-> t, isDict |-> d, genes |-> gs, pathways |-> ps]

GeneOK == Gene(TRUE, "num")
PathwayOK == Pathway("num", "significant", "list")

Results == {
    Result("list", FALSE, <<>>, <<>>),
    Result("empty", TRUE, <<>>, <<>>),
    Result("genes", TRUE, <<GeneOK, Gene(TRUE, "absent")>>, <<>>),
    Result("pathways", TRUE, <<>>, <<PathwayOK>>),
    Result("full", TRUE, <<GeneOK>>, <<PathwayOK, Pathway("absent", "not", "absent")>>),
    Result("many", TRUE, [i \in 1..(RichGeneLimit + 1) |-> GeneOK],
                         [i \in 1..(FramePathwayLimit + 1) |-> PathwayOK]),
    Result("strgene", TRUE, <<GeneOK, Gene(FALSE, "absent")>>, <<PathwayOK>>),
    Result("nullscore", TRUE, <<Gene(TRUE, "null")>>, <<PathwayOK>>),
    Result("nullpvalue", TRUE, <<GeneOK>>, <<PathwayOK, Pathway("null", "significant", "list")>>),
    Result("nullgenes", TRUE, <<GeneOK>>, <<Pathway("num", "not", "null")>>)
}

NoResult == Result("none", FALSE, <<>>, <<>>)

\* what requests.post does: it raises, or it returns a response with a
\* status code and a body that is valid JSON (value) or is not
Raises(e) == [kind |-> "raise", exc |-> e, status |-> 0, valid |-> FALSE, value |-> NoResult]
Response(st, ok, v) == [kind |-> "response", exc |-> NoException, status |-> st, valid |-> ok, value |-> v]

Envs ==
    {Raises(e) : e \in {"ReadTimeout", "ConnectTimeout", "ConnectionError", "KeyboardInterrupt"}}
    \cup {Response(StatusOK, TRUE, r) : r \in Results}
    \cup {Response(StatusOK, FALSE, NoResult)}
    \cup {Response(st, TRUE, Result("full", TRUE, <<GeneOK>>, <<PathwayOK, Pathway("absent", "not", "absent")>>)) : st \in {201, 404}}
    \cup {Response(500, FALSE, NoResult)}

NoEnv == Raises(NoException)

\* requests.post with a URL that has no scheme raises before anything is sent
PostOutcome(url, e) == IF url = <<>> THEN Raises("MissingSchema") ELSE e

----------------------------------------------------------------------------
(* The state after construction, and the two magics.                       *)

DefaultUrl == <<"http://localhost:8787/analyze">>

Unset == <<"<unset>">>

EmptyNs == [n \in {} |-> NoResult]

\* dict.setdefault in the place of the assignment
Store_KeepFirst(ns, result) ==
    IF "gaialab_result" \in DOMAIN ns THEN ns
    ELSE [n \in DOMAIN ns \cup {"gaialab_result"} |->
             IF n = "gaialab_result" THEN result ELSE ns[n]]

\* self.shell.user_ns['gaialab_result'] = result
Store(ns, result) == [n \in DOMAIN ns \cup {"gaialab_result"} |->
                         IF n = "gaialab_result" THEN result ELSE ns[n]]

\* the handlers without the clause for the timeout
Handle_NoTimeoutClause(e) ==
    IF e \notin BaseOnlyClass THEN [out |-> <<ErrorNotice(e)>>, exc |-> NoException]
    ELSE [out |-> <<>>, exc |-> e]

\* except requests.exceptions.Timeout: ... except Exception as e: ...
Handle(e) ==
    IF e \in TimeoutClass THEN [out |-> <<TimeoutNotice>>, exc |-> NoException]
    ELSE IF e \notin BaseOnlyClass THEN [out |-> <<ErrorNotice(e)>>, exc |-> NoException]
    ELSE [out |-> <<>>, exc |-> e]

\* only the client and server error statuses taken as failures
StatusFails_ErrorsOnly(st) == st >= 400

\* if response.status_code != 200
StatusFails(st) == st # StatusOK

\* a second attempt after a request that raised
PostCalls_Retry(request, r) ==
    IF r.kind = "raise" THEN <<request, request>> ELSE <<request>>

\* the requests.post calls of one execution of the try block, r being what
\* the network does with the request: one call, no loop around it
PostCalls(request, r) == <<request>>

\* the result stored before it is formatted
TryBlock_StoreFirst(r, fmt, g, dc, ns) ==
    IF r.kind = "raise"
    THEN [calls |-> <<>>, out |-> <<>>, ns |-> ns, exc |-> r.exc]
    ELSE IF StatusFails(r.status)
    THEN [calls |-> <<>>, out |-> <<ApiErrorNotice(r.status)>>, ns |-> ns, exc |-> NoException]
    ELSE IF ~r.valid
    THEN [calls |-> <<"json">>, out |-> <<>>, ns |-> ns, exc |-> "JSONDecodeError"]
    ELSE LET f == Format(fmt, r.value, g, dc)
         IN  IF f.exc # NoException
             THEN [calls |-> <<"json", FormatterName(fmt)>>, out |-> f.out,
                   ns |-> Store(ns, r.value), exc |-> f.exc]
             ELSE [calls |-> <<"json", FormatterName(fmt)>>, out |-> f.out \o <<StoredNotice>>,
                   ns |-> Store(ns, r.value), exc |-> NoException]

\* the try block of gaialab, after requests.post has returned or raised r:
\* the calls it makes, what it displays, what it stores and what it raises
TryBlock(r, fmt, g, dc, ns) ==
    IF r.kind = "raise"
    THEN [calls |-> <<>>, out |-> <<>>, ns |-> ns, exc |-> r.exc]
    ELSE IF StatusFails(r.status)
    THEN [calls |-> <<>>, out |-> <<ApiErrorNotice(r.status)>>, ns |-> ns, exc |-> NoException]
    ELSE IF ~r.valid
    THEN [calls |-> <<"json">>, out |-> <<>>, ns |-> ns, exc |-> "JSONDecodeError"]
    ELSE LET f == Format(fmt, r.value, g, dc)
         IN  IF f.exc # NoException
             THEN [calls |-> <<"json", FormatterName(fmt)>>, out |-> f.out, ns |-> ns, exc |-> f.exc]
             ELSE [calls |-> <<"json", FormatterName(fmt)>>, out |-> f.out \o <<StoredNotice>>,
                   ns |-> Store(ns, r.value), exc |-> NoException]

\* __init__
Init ==
    /\ api_url = DefaultUrl
    /\ user_ns = EmptyNs
    /\ op = "init"
    /\ configured = <<>>
    /\ line = Unset
    /\ cell = Unset
    /\ env = NoEnv
    /\ genes = <<>>
    /\ params = EmptyDict
    /\ disease_context = Unset
    /\ audience = Unset
    /\ output_format = Unset
    /\ posts = <<>>
    /\ calls = <<>>
    /\ displayed = <<>>
    /\ thrown = NoException
    /\ raised = NoException

\* the line stored as typed
gaialab_config_NoStrip(l) ==
    /\ api_url' = l
    /\ op' = "gaialab_config"
    /\ configured' = <<l>>
    /\ UNCHANGED <<user_ns, line, cell, env, genes, params, disease_context, audience,
                   output_format, posts, calls, displayed, thrown, raised>>

\* %gaialab_config line
gaialab_config(l) ==
    /\ api_url' = Strip(l)
    /\ op' = "gaialab_config"
    /\ configured' = <<l>>
    /\ UNCHANGED <<user_ns, line, cell, env, genes, params, disease_context, audience,
                   output_format, posts, calls, displayed, thrown, raised>>

\* %%gaialab line / cell, with e what the network does with the request
gaialab(l, c, e) ==
    LET g == ParseGenes(l)
    IN  /\ op' = "gaialab"
        /\ line' = l
        /\ cell' = c
        /\ env' = e
        /\ genes' = g
        /\ UNCHANGED <<api_url, configured>>
        /\ IF g = <<>>
           THEN /\ displayed' = <<NoGenesNotice>>
                /\ params' = EmptyDict
                /\ disease_context' = Unset
                /\ audience' = Unset
                /\ output_format' = Unset
                /\ posts' = <<>>
                /\ calls' = <<>>
                /\ thrown' = NoException
                /\ raised' = NoException
                /\ UNCHANGED user_ns
           ELSE LET p == ParseParams(c)
                    dc == GetDisease(p)
                    aud == GetAudience(p)
                    fmt == GetFormat(p)
                    request == [url |-> api_url, genes |-> g, diseaseContext |-> dc,
                                audience |-> aud, timeout |-> PostTimeout]
                    t == TryBlock(PostOutcome(api_url, e), fmt, g, dc, user_ns)
                    h == IF t.exc = NoException THEN [out |-> <<>>, exc |-> NoException]
                         ELSE Handle(t.exc)
                IN  /\ params' = p
                    /\ disease_context' = dc
                    /\ audience' = aud
                    /\ output_format' = fmt
                    /\ posts' = PostCalls(request, PostOutcome(api_url, e))
                    /\ thrown' = t.exc
                    /\ calls' = t.calls
                    /\ displayed' = <<AnalyzingNotice(g, dc)>> \o t.out \o h.out
                    /\ raised' = h.exc
                    /\ user_ns' = t.ns

----------------------------------------------------------------------------
(* The inputs.                                                             *)

\* the strings over alphabet A of length at most n
Strings(A, n) == UNION {[1..k -> A] : k \in 0..n}

LineAlphabet == {"a", "B", " ", ","}
Lines == Strings(LineAlphabet, MaxLineLen)

CellAlphabet == {"k", ":", " ", "\n"}
CharCells == Strings(CellAlphabet, MaxCellLen)

\* cell bodies made of whole parameter lines
CellLines == {
    <<"disease", ":", " ", "flu">>,
    <<"disease", ":">>,
    <<" ", "audience", " ", ":", "student", ":", "x">>,
    <<"format", ":", "dataframe">>,
    <<"format", ":", " ", "simple", " ">>,
    <<"format", ":", "table">>,
    <<"format">>,
    <<"Disease", ":", "flu">>,
    <<"disease", " ", "x", ":", "flu">>,
    <<>>
}
LineCells == {Join(ls, "\n") : ls \in Strings(CellLines, MaxCellLines)}

ConfigLines == {<<"http://a/analyze">>, <<" ", "http://b/analyze", "\n">>, <<" ">>}

\* the outcomes used where calls follow one another
SessionEnvs == {e \in Envs : /\ e.value.tag \in {"none", "full", "empty", "nullgenes"}
                              /\ e.exc # "ConnectTimeout"
                              /\ e.status # 500}

SomeLines == {<<"tp53", ",", " ", "brca1">>, <<" ", ",">>}
SomeCells == {<<>>, <<"format", ":", "dataframe">>,
              <<"format", ":", "simple", "\n", "disease", ":", "flu">>}

----------------------------------------------------------------------------
(* Specifications.                                                         *)

Configure == \E l \in ConfigLines : gaialab_config(l)
Analyze == \E l \in SomeLines, c \in SomeCells, e \in SessionEnvs : gaialab(l, c, e)

Next == Configure \/ Analyze

\* any sequence of gaialab_config and gaialab calls on one session
Spec == Init /\ [][Next]_vars

\* one gaialab call awaiting execution
Pending(ls, cs, es) ==
    /\ api_url = DefaultUrl
    /\ user_ns = EmptyNs
    /\ op = "pending"
    /\ configured = <<>>
    /\ line \in ls
    /\ cell \in cs
    /\ env \in es
    /\ genes = <<>>
    /\ params = EmptyDict
    /\ disease_context = Unset
    /\ audience = Unset
    /\ output_format = Unset
    /\ posts = <<>>
    /\ calls = <<>>
    /\ displayed = <<>>
    /\ thrown = NoException
    /\ raised = NoException

RunPending == op = "pending" /\ gaialab(line, cell, env)

\* gaialab on every line string
InitLine == Pending(Lines, {<<>>}, {Response(StatusOK, TRUE, Result("empty", TRUE, <<>>, <<>>))})
SpecLine == InitLine /\ [][RunPending]_vars

\* gaialab on every outcome of the request, in every output format
InitCall == Pending(SomeLines, SomeCells \cup {<<"format", ":", "rich">>, <<"format", ":", "table">>}, Envs)
SpecCall == InitCall /\ [][RunPending]_vars

\* gaialab on every cell body
InitCell == Pending({<<"tp53">>}, CharCells \cup LineCells,
                    {Response(StatusOK, TRUE, r) : r \in {x \in Results : x.tag \in {"full", "empty"}}})
SpecCell == InitCell /\ [][RunPending]_vars

----------------------------------------------------------------------------
(* Vocabulary of the properties, stated on the inputs and on what can be   *)
(* observed, independently of the operators above.                         *)

\* t is s without its leading and trailing whitespace
IsTrimOf(t, s) ==
    \E a \in 0..Len(s), b \in 0..Len(s) :
        /\ a + b <= Len(s)
        /\ \A i \in 1..a : s[i] \in Whitespace
        /\ \A i \in (Len(s) - b + 1)..Len(s) : s[i] \in Whitespace
        /\ t = [i \in 1..(Len(s) - a - b) |-> s[a + i]]
        /\ t # <<>> => (t[1] \notin Whitespace /\ t[Len(t)] \notin Whitespace)

\* the contiguous parts of s
Parts(s) == {SubSeq(s, a, b) : a \in 1..(Len(s) + 1), b \in 0..Len(s)}

Blank(s) == \A i \in 1..Len(s) : s[i] \in Whitespace

\* the pieces of s between separators, as pairs <<a, b>> of consecutive
\* boundaries: the piece is s[a+1 .. b-1]
Boundaries(s, sep) == {0, Len(s) + 1} \cup {i \in 1..Len(s) : s[i] = sep}
Pieces(s, sep) ==
    {q \in Boundaries(s, sep) \X Boundaries(s, sep) :
        q[1] < q[2] /\ \A m \in Boundaries(s, sep) : ~(q[1] < m /\ m < q[2])}
PieceText(s, q) == [i \in 1..(q[2] - q[1] - 1) |-> s[q[1] + i]]

\* the position of the piece q among the pieces of K, in the order of the text
Rank(K, q) == Cardinality({r \in K : r[1] <= q[1]})

IsUpperOf(u, t) ==
    /\ Len(u) = Len(t)
    /\ \A i \in 1..Len(t) :
          u[i] = (IF t[i] = "a" THEN "A" ELSE IF t[i] = "tp53" THEN "TP53"
                  ELSE IF t[i] = "brca1" THEN "BRCA1" ELSE t[i])

Ran == op = "gaialab"

\* the call got past the gene check and issued its request to a usable URL
Sent == Ran /\ posts # <<>> /\ posts[1].url # <<>>

ShownWhat(w) == \E i \in 1..Len(displayed) : displayed[i].what = w
LastShown == displayed[Len(displayed)]

----------------------------------------------------------------------------
(* C1: for every line string, the gene list is the comma-separated pieces  *)
(* of the line that are not blank, in the order of the line and with       *)
(* duplicates kept, each trimmed of surrounding whitespace and upper-cased.*)

KeptPieces(l) == {q \in Pieces(l, ",") : ~Blank(PieceText(l, q))}

C1_GeneList ==
    Ran =>
        /\ Len(genes) = Cardinality(KeptPieces(line))
        /\ \A q \in KeptPieces(line) :
              \E t \in Parts(PieceText(line, q)) :
                  /\ IsTrimOf(t, PieceText(line, q))
                  /\ IsUpperOf(genes[Rank(KeptPieces(line), q)], t)

\* a line with a blank piece that is dropped, a padded piece that is trimmed,
\* lower case that is raised and a gene that is repeated
C1_Witness ==
    /\ Ran
    /\ Cardinality(Pieces(line, ",")) > Cardinality(KeptPieces(line))
    /\ \E q \in KeptPieces(line) : PieceText(line, q)[1] = " "
    /\ genes = <<<<"A">>, <<"A">>>>

----------------------------------------------------------------------------
(* C2: for every cell body, the keys of the parameter mapping are exactly  *)
(* the trimmed texts before the first colon of the lines that have a       *)
(* colon (a line without a colon gives no entry), and the value under a    *)
(* key is the trimmed text after the first colon of the last line with     *)
(* that key, later colons included.                                        *)

CellRows == Pieces(cell, "\n")
RowText(q) == PieceText(cell, q)
HasColon(q) == \E i \in 1..Len(RowText(q)) : RowText(q)[i] = ":"
ColonRows == {q \in CellRows : HasColon(q)}
FirstColon(q) == CHOOSE i \in 1..Len(RowText(q)) :
                    RowText(q)[i] = ":" /\ \A j \in 1..(i - 1) : RowText(q)[j] # ":"
BeforeColon(q) == [i \in 1..(FirstColon(q) - 1) |-> RowText(q)[i]]
AfterColon(q) == [i \in 1..(Len(RowText(q)) - FirstColon(q)) |-> RowText(q)[FirstColon(q) + i]]

\* the row q gives the entry k -> v
RowGives(q, k, v) == HasColon(q) /\ IsTrimOf(k, BeforeColon(q)) /\ IsTrimOf(v, AfterColon(q))

\* q is the last row of the cell that gives key k
LastFor(q, k) ==
    /\ HasColon(q)
    /\ IsTrimOf(k, BeforeColon(q))
    /\ \A r \in ColonRows : r[1] > q[1] => ~IsTrimOf(k, BeforeColon(r))

C2_ParamMapping ==
    (Ran /\ posts # <<>>) =>
        /\ \A q \in ColonRows : \E k \in DOMAIN params : IsTrimOf(k, BeforeColon(q))
        /\ \A k \in DOMAIN params :
              \E q \in ColonRows : LastFor(q, k) /\ RowGives(q, k, params[k])

\* a cell with a row without a colon that is not blank and a row with two colons
C2_Witness ==
    /\ Ran /\ posts # <<>>
    /\ \E q \in CellRows : ~HasColon(q) /\ ~Blank(RowText(q))
    /\ \E q \in ColonRows : \E i \in 1..Len(AfterColon(q)) : AfterColon(q)[i] = ":"
    /\ \E k \in DOMAIN params : \E i \in 1..Len(params[k]) : params[k][i] = ":"

----------------------------------------------------------------------------
(* C3: the disease context sent is cancer when no row of the cell gives    *)
(* the key disease, the audience sent is researcher when no row gives the  *)
(* key audience, the output format is rich (and the rich routine runs)     *)
(* when no row gives the key format; a key that is given overrides the     *)
(* default with the value of its last row.                                 *)

RowsFor(key) == {q \in ColonRows : IsTrimOf(key, BeforeColon(q))}

Chosen(key, default, x) ==
    IF RowsFor(key) = {} THEN x = default
    ELSE \E q \in RowsFor(key) :
            /\ \A r \in RowsFor(key) : r[1] <= q[1]
            /\ IsTrimOf(x, AfterColon(q))

C3_Defaults ==
    (Ran /\ posts # <<>>) =>
        /\ Chosen(<<"disease">>, <<"cancer">>, posts[1].diseaseContext)
        /\ Chosen(<<"audience">>, <<"researcher">>, posts[1].audience)
        /\ Chosen(<<"format">>, <<"rich">>, output_format)
        /\ disease_context = posts[1].diseaseContext
        /\ audience = posts[1].audience
        /\ (RowsFor(<<"format">>) = {} /\ thrown = NoException) => calls = <<"json", "_display_rich">>

\* the disease is given and overrides, the audience and the format are defaulted
C3_Witness ==
    /\ Ran /\ posts # <<>>
    /\ RowsFor(<<"disease">>) # {}
    /\ RowsFor(<<"audience">>) = {}
    /\ RowsFor(<<"format">>) = {}
    /\ posts[1].diseaseContext = <<"flu">>
    /\ posts[1].audience = <<"researcher">>
    /\ calls = <<"json", "_display_rich">>

----------------------------------------------------------------------------
(* C4: when the POST times out, gaialab displays the timeout notice and    *)
(* returns: no exception leaves it, no formatting routine and no decoding  *)
(* runs, and gaialab_result is left as it was.                             *)

TimedOut == Sent /\ env.kind = "raise" /\ env.exc \in {"Timeout", "ConnectTimeout", "ReadTimeout"}

C4_Timeout ==
    [][TimedOut' =>
          /\ Len(displayed') = 2
          /\ displayed'[1].what = "Analyzing"
          /\ displayed'[2] = [via |-> "HTML", what |-> "Timeout", code |-> 0, cols |-> <<>>, msg |-> ""]
          /\ raised' = NoException
          /\ calls' = <<>>
          /\ user_ns' = user_ns]_vars

\* a timeout after an earlier call has stored a result
C4_Witness == TimedOut /\ ShownWhat("Timeout") /\ user_ns # EmptyNs

----------------------------------------------------------------------------
(* C5: when the response status is not 200, gaialab displays the notice    *)
(* with that status code and does nothing further: the body is not         *)
(* decoded, no formatting routine runs, gaialab_result is not written and  *)
(* the stored message is not displayed.                                    *)

Refused == Sent /\ env.kind = "response" /\ env.status # 200

C5_Non200 ==
    [][Refused' =>
          /\ Len(displayed') = 2
          /\ displayed'[1].what = "Analyzing"
          /\ displayed'[2].what = "ApiError"
          /\ displayed'[2].code = env'.status
          /\ calls' = <<>>
          /\ user_ns' = user_ns
          /\ raised' = NoException]_vars

\* a 201 response with a well-formed body, after an earlier call has stored a result
C5_Witness ==
    /\ Refused /\ env.status = 201 /\ env.valid
    /\ ShownWhat("ApiError")
    /\ user_ns # EmptyNs
    /\ user_ns["gaialab_result"] # env.value

----------------------------------------------------------------------------
(* C6, as claimed: after every invocation gaialab_result holds the result  *)
(* (the decoded response body) of that invocation.                         *)

C6_OverwrittenEachInvocation ==
    Ran =>
        /\ env.kind = "response" /\ env.valid
        /\ "gaialab_result" \in DOMAIN user_ns
        /\ user_ns["gaialab_result"] = env.value

(* C6, amended: an invocation overwrites gaialab_result with its result    *)
(* exactly when it gets a 200 response whose body decodes and is formatted *)
(* without an exception; every other invocation leaves gaialab_result as   *)
(* it was, so that it holds the result of the last such invocation.        *)

Succeeded ==
    Sent /\ env.kind = "response" /\ env.status = 200 /\ env.valid /\ thrown = NoException

C6_OverwrittenOnSuccess ==
    [][Ran' =>
          IF Succeeded'
          THEN DOMAIN user_ns' = {"gaialab_result"} /\ user_ns'["gaialab_result"] = env'.value
          ELSE user_ns' = user_ns]_vars

\* a 200 response whose formatting raised, after an earlier call has stored
\* another result: the earlier result is still there
C6_Witness ==
    /\ Sent /\ ~Succeeded
    /\ env.kind = "response" /\ env.status = 200 /\ env.valid
    /\ user_ns # EmptyNs
    /\ user_ns["gaialab_result"] # env.value

----------------------------------------------------------------------------
(* C7: every POST of gaialab goes to the trimmed argument of the most      *)
(* recent gaialab_config call, or to http://localhost:8787/analyze when    *)
(* there was none, and gaialab never changes the target URL.               *)

C7_PostTarget ==
    [][Ran' =>
          /\ api_url' = api_url
          /\ \A i \in 1..Len(posts') :
                IF configured = <<>>
                THEN posts'[i].url = <<"http://localhost:8787/analyze">>
                ELSE IsTrimOf(posts'[i].url, configured[1])]_vars

\* a POST to a URL that was configured with blanks around it, in a call that failed
C7_Witness ==
    /\ Sent
    /\ configured # <<>>
    /\ posts[1].url # configured[1]
    /\ thrown # NoException

----------------------------------------------------------------------------
(* C8, as claimed: for every 200 response, the dataframe format displays a *)
(* genes table with the columns Symbol, Name, Importance, UniProt and a    *)
(* pathways table with the columns Pathway, P-value, Significance,         *)
(* Confidence, Genes.                                                      *)

GeneColumns == <<"Symbol", "Name", "Importance", "UniProt">>
PathwayColumns == <<"Pathway", "P-value", "Significance", "Confidence", "Genes">>

Framed == Ran /\ posts # <<>> /\ env.kind = "response" /\ env.status = 200
          /\ output_format = <<"dataframe">>

TablesWith(cs) == {i \in 1..Len(displayed) : displayed[i].via = "DataFrame" /\ displayed[i].cols = cs}
Tables == {i \in 1..Len(displayed) : displayed[i].via = "DataFrame"}

C8_BothTablesAlways ==
    Framed => (TablesWith(GeneColumns) # {} /\ TablesWith(PathwayColumns) # {})

(* C8, amended: for a 200 response, the dataframe format displays no table *)
(* but a genes table with exactly the columns Symbol, Name, Importance,    *)
(* UniProt and a pathways table with exactly the columns Pathway, P-value, *)
(* Significance, Confidence, Genes; when the body decodes and the          *)
(* formatting raises nothing, the genes table is displayed exactly when    *)
(* the result has a gene and the pathways table exactly when it has a      *)
(* pathway.                                                                *)

C8_TablesWhenRows ==
    Framed =>
        /\ Tables = TablesWith(GeneColumns) \cup TablesWith(PathwayColumns)
        /\ Cardinality(TablesWith(GeneColumns)) <= 1
        /\ Cardinality(TablesWith(PathwayColumns)) <= 1
        /\ (env.valid /\ thrown = NoException) =>
              /\ TablesWith(GeneColumns) # {} <=> env.value.genes # <<>>
              /\ TablesWith(PathwayColumns) # {} <=> env.value.pathways # <<>>

\* both tables displayed, the genes table first
C8_Witness ==
    /\ Framed /\ thrown = NoException
    /\ \E i \in TablesWith(GeneColumns) : \E j \in TablesWith(PathwayColumns) : i < j

----------------------------------------------------------------------------
(* C9, as claimed: any exception other than a timeout raised by the HTTP   *)
(* call, the decoding or the formatting is caught and shown as the Error   *)
(* notice with its message; none propagates and gaialab_result keeps its   *)
(* value.                                                                  *)

Failed == Ran /\ thrown \notin {NoException, "Timeout", "ConnectTimeout", "ReadTimeout"}

Caught ==
    /\ raised = NoException
    /\ LastShown.what = "Error"
    /\ LastShown.msg = thrown

C9_AnyExceptionCaught ==
    [][Failed' => (Caught' /\ user_ns' = user_ns)]_vars

(* C9, amended: any exception other than a timeout that derives from       *)
(* Exception is caught and shown as the Error notice with its message and  *)
(* does not propagate; one that derives from BaseException only            *)
(* (KeyboardInterrupt, SystemExit) propagates and shows no notice; in both *)
(* cases gaialab_result keeps its value.                                   *)

C9_ExceptionCaught ==
    [][Failed' =>
          /\ user_ns' = user_ns
          /\ IF thrown' \in {"KeyboardInterrupt", "SystemExit"}
             THEN raised' = thrown' /\ ~ShownWhat("Error")' /\ ~ShownWhat("Timeout")'
             ELSE Caught']_vars

\* a formatting routine that raised after displaying a table, with a result stored earlier
C9_Witness ==
    /\ Failed /\ Caught
    /\ calls = <<"json", "_display_as_dataframe">>
    /\ Tables # {}
    /\ user_ns # EmptyNs
    /\ user_ns["gaialab_result"] # env.value

----------------------------------------------------------------------------
(* C10, as claimed: every execution of gaialab performs exactly one POST.  *)

C10_ExactlyOnePost == Ran => Len(posts) = 1

(* C10, amended: an execution of gaialab whose line has a piece that is    *)
(* not blank performs exactly one POST, whatever its outcome, and an       *)
(* execution whose line has none performs no POST; the request is never    *)
(* retried.                                                                *)

C10_OnePostIfGenes ==
    Ran => Len(posts) = (IF KeptPieces(line) = {} THEN 0 ELSE 1)

\* one POST in a call whose request raised
C10_Witness == Sent /\ env.kind = "raise" /\ thrown # NoException /\ Len(posts) = 1

====
